---------------------------- MODULE Spec2Model ----------------------------
(***************************************************************************)
(* Model of the timehelm game server: the World Store (GameState and the   *)
(* PhysicsWorld it owns), the per-connection handler handle_websocket with *)
(* its two tasks (rx_task, sender_task), and the background loops of main. *)
(***************************************************************************)
EXTENDS Integers, Sequences, FiniteSets, TLC

(***************************************************************************)
(* Bounds of the model.                                                    *)
(***************************************************************************)
\* Total number of Join messages the clients send.
MaxJoins == 3
\* Capacity of a session's mpsc queue (32 in websocket.rs:32, scaled down).
QueueCapacity == 2
\* Capacity of the broadcast channel (100 in main.rs:73, scaled down).
BroadcastCapacity == 1
\* Number of engine steps followed for the seeded ball.
MaxTicks == 60

Sessions == {"s1", "s2"}
PlayerIds == {"p1", "p2"}
\* Ids a Move or SetActivity may name: "ghost" is never joined.
MsgPlayerIds == PlayerIds \cup {"ghost"}
Positions == {<<0, 0, 0>>, <<10, 0, 0>>}
Rotations == {0, 1}
\* The (position, rotation, is_moving) a Move may carry.
MoveInputs == Positions \X Rotations \X BOOLEAN
Activities == {"Idle", "Sleeping"}
\* Translations the engine may give the dynamic ball after a step.
BallPositions == {<<-300, 500, -400>>, <<-290, 400, -410>>}

None == "none"
BallId == "ball_0"

(***************************************************************************)
(* HashMap helpers.                                                        *)
(***************************************************************************)
EmptyMap == [k \in {} |-> None]
Insert(m, k, v) == [x \in DOMAIN m \cup {k} |-> IF x = k THEN v ELSE m[x]]
Remove(m, k) == [x \in DOMAIN m \ {k} |-> m[x]]

(***************************************************************************)
(* physics.rs: PhysicsWorld.  rigid_body_set maps a handle to a body,      *)
(* entity_handles maps an entity id to a handle.                           *)
(***************************************************************************)
\* RigidBodySet::insert returns a handle no live body has.  A handle is an
\* opaque reference: it is written <<entity_id, k>>, k the number of live
\* bodies that were created under entity_id before it.
NewHandle(rigid_body_set, entity_id) ==
    <<entity_id,
      Cardinality({h \in DOMAIN rigid_body_set : h[1] = entity_id})>>

PhysicsWorld_new == [entity_handles |-> EmptyMap, rigid_body_set |-> EmptyMap]

create_bouncy_ball(physics, entity_id, x, z) ==
    LET handle == NewHandle(physics.rigid_body_set, entity_id)
        body == [body_type |-> "dynamic", translation |-> <<x, 500, z>>,
                 rotation |-> <<0, 0, 0>>]
    IN  [entity_handles |-> Insert(physics.entity_handles, entity_id, handle),
         rigid_body_set |-> Insert(physics.rigid_body_set, handle, body)]

create_human(physics, entity_id, x, y, z) ==
    LET handle == NewHandle(physics.rigid_body_set, entity_id)
        body == [body_type |-> "kinematic", translation |-> <<x, y, z>>,
                 rotation |-> <<0, 0, 0>>]
    IN  [entity_handles |-> Insert(physics.entity_handles, entity_id, handle),
         rigid_body_set |-> Insert(physics.rigid_body_set, handle, body)]

\* update_human_position that leaves the body where it was.
update_human_position_noop(physics, entity_id, x, y, z) == physics

update_human_position(physics, entity_id, x, y, z) ==
    IF /\ entity_id \in DOMAIN physics.entity_handles
       /\ physics.entity_handles[entity_id] \in DOMAIN physics.rigid_body_set
    THEN [physics EXCEPT
            !.rigid_body_set[physics.entity_handles[entity_id]].translation =
                <<x, y, z>>]
    ELSE physics

\* PhysicsWorld::step: the pipeline integrates dynamic bodies only; where a
\* ball ends up is the engine's choice (ball_translation).  Kinematic
\* position-based bodies keep the translation that was set.
step(physics, ball_translation) ==
    [physics EXCEPT !.rigid_body_set =
        [h \in DOMAIN physics.rigid_body_set |->
            IF physics.rigid_body_set[h].body_type = "dynamic"
            THEN [physics.rigid_body_set[h] EXCEPT
                    !.translation = ball_translation]
            ELSE physics.rigid_body_set[h]]]

HasBody(physics, entity_id) ==
    /\ entity_id \in DOMAIN physics.entity_handles
    /\ physics.entity_handles[entity_id] \in DOMAIN physics.rigid_body_set

\* get_entity_position that answers the origin for an id it does not know.
get_entity_position_origin(physics, entity_id) ==
    IF HasBody(physics, entity_id)
    THEN physics.rigid_body_set[physics.entity_handles[entity_id]].translation
    ELSE <<0, 0, 0>>

\* Option results: None or the tuple.
get_entity_position(physics, entity_id) ==
    IF HasBody(physics, entity_id)
    THEN physics.rigid_body_set[physics.entity_handles[entity_id]].translation
    ELSE None

get_entity_rotation(physics, entity_id) ==
    IF HasBody(physics, entity_id)
    THEN physics.rigid_body_set[physics.entity_handles[entity_id]].rotation
    ELSE None

remove_entity(physics, entity_id) ==
    IF entity_id \in DOMAIN physics.entity_handles
    THEN [entity_handles |-> Remove(physics.entity_handles, entity_id),
          rigid_body_set |-> Remove(physics.rigid_body_set,
                                    physics.entity_handles[entity_id])]
    ELSE physics

(***************************************************************************)
(* physics.rs: the arena and the seeded ball as the engine integrates      *)
(* them.  Lengths are in 1/16 cm and velocities in cm/s, so that every     *)
(* quantity of a step is a whole number.                                   *)
(***************************************************************************)
gravity == -3531600
ground_half_size == 5000
wall_height == 2000
wall_thickness == 100
ball_radius == 50
\* The steps per second of IntegrationParameters::default() (dt = 1/60).
inv_dt == 60

Units(cm) == 16 * cm
Cm(translation) ==
    <<translation[1] \div 16, translation[2] \div 16, translation[3] \div 16>>

\* The draws of rng.gen_range(-100.0..100.0) and rng.gen_range(-20.0..20.0).
InitialVelocities == {-100, 0, 50}
Perturbations == {-20, 0, 10}
\* num_solver_iterations of IntegrationParameters::default(): 4 substeps in
\* the releases that split a step, 1 in the ones that do not.
SolverIterations == {1, 4}

\* Lines 41-101: the fixed colliders, as half-extents and centre; axis is
\* the direction of the face a ball inside the arena meets.  The ground's
\* half-thickness of 0.1 cm is rounded up to 2/16 cm.
collider_set ==
    {[half |-> <<Units(5000), 2, Units(5000)>>, at |-> <<0, -2, 0>>,
      axis |-> 2],
     [half |-> <<Units(wall_thickness), Units(wall_height),
                 Units(ground_half_size)>>,
      at |-> <<Units(ground_half_size) + Units(wall_thickness) \div 2,
               Units(wall_height), 0>>, axis |-> 1],
     [half |-> <<Units(wall_thickness), Units(wall_height),
                 Units(ground_half_size)>>,
      at |-> <<-Units(ground_half_size) - Units(wall_thickness) \div 2,
               Units(wall_height), 0>>, axis |-> 1],
     [half |-> <<Units(ground_half_size), Units(wall_height),
                 Units(wall_thickness)>>,
      at |-> <<0, Units(wall_height),
               Units(ground_half_size) + Units(wall_thickness) \div 2>>,
      axis |-> 3],
     [half |-> <<Units(ground_half_size), Units(wall_height),
                 Units(wall_thickness)>>,
      at |-> <<0, Units(wall_height),
               -Units(ground_half_size) - Units(wall_thickness) \div 2>>,
      axis |-> 3]}

\* Lines 140-147: the rigid body create_bouncy_ball builds, for the draws
\* vel_x and vel_z.
bouncy_ball(x, z, vel_x, vel_z) ==
    [translation |-> <<Units(x), Units(500), Units(z)>>,
     linvel |-> <<vel_x * 60, 0, vel_z * 60>>]

\* Lines 229-243: the perturbation of a ball whose vertical velocity is
\* near zero, for the draws dx and dz.
perturb(body, dx, dz) ==
    IF body.linvel[2] < 6 /\ body.linvel[2] > -6
    THEN [body EXCEPT !.linvel = <<@[1] + dx * 60, @[2], @[3] + dz * 60>>]
    ELSE body

Abs(x) == IF x < 0 THEN -x ELSE x

\* Narrow phase: the ball's collider (radius 50, no CCD enabled on the
\* body) reaches collider c at the pose the step starts from.
InContact(body, c) ==
    \A i \in 1..3 :
        Abs(body.translation[i] - c.at[i]) <= c.half[i] + Units(ball_radius)

\* Restitution 1.0, friction 0.0: the velocity along the contact's axis is
\* reversed when it points at the collider.
Bounce(body) ==
    [i \in 1..3 |->
        IF \E c \in collider_set :
            /\ c.axis = i
            /\ InContact(body, c)
            /\ body.linvel[i] * (c.at[i] - body.translation[i]) > 0
        THEN -body.linvel[i] ELSE body.linvel[i]]

\* Lines 245-260: physics_pipeline.step for the ball.  Contacts are found at
\* the starting pose; then each of the n substeps of length dt/n adds
\* gravity to the velocity and moves the body by the new velocity.
pipeline_step(body, n) ==
    LET v == Bounce(body)
        fall == (16 * gravity * (n + 1)) \div (2 * inv_dt * inv_dt * n)
    IN  [translation |->
            <<body.translation[1] + (16 * v[1]) \div inv_dt,
              body.translation[2] + (16 * v[2]) \div inv_dt + fall,
              body.translation[3] + (16 * v[3]) \div inv_dt>>,
         linvel |-> <<v[1], v[2] + gravity \div inv_dt, v[3]>>]

(***************************************************************************)
(* game.rs: GameState.  g is a record [players, entities, physics].        *)
(***************************************************************************)
human_id(player_id) == "human_" \o player_id

GameState_new ==
    [players |-> EmptyMap,
     entities |-> Insert(EmptyMap, BallId,
                    [id |-> BallId, entity_type |-> "Ball",
                     position |-> <<-300, 500, -400>>,
                     rotation |-> <<0, 0, 0>>]),
     physics |-> create_bouncy_ball(PhysicsWorld_new, BallId, -300, -400)]

player_to_entity(player) ==
    [id |-> human_id(player.id), entity_type |-> "Human",
     position |-> player.position, rotation |-> <<0, player.rotation, 0>>]

add_entity(g, entity) ==
    [g EXCEPT
        !.physics =
            IF entity.entity_type = "Human"
            THEN create_human(g.physics, entity.id, entity.position[1],
                              entity.position[2], entity.position[3])
            ELSE create_bouncy_ball(g.physics, entity.id, entity.position[1],
                                    entity.position[3]),
        !.entities = Insert(g.entities, entity.id, entity)]

\* add_player that keeps the Player already stored under the id.
add_player_keeps_first(g, player) ==
    LET g1 == add_entity(g, player_to_entity(player))
    IN  [g1 EXCEPT !.players = IF player.id \in DOMAIN g1.players THEN @
                               ELSE Insert(g1.players, player.id, player)]

add_player(g, player) ==
    LET g1 == add_entity(g, player_to_entity(player))
    IN  [g1 EXCEPT !.players = Insert(g1.players, player.id, player)]

\* remove_player without entities.remove.
remove_player_keeps_entity(g, player_id) ==
    [players |-> Remove(g.players, player_id),
     entities |-> g.entities,
     physics |-> remove_entity(g.physics, human_id(player_id))]

\* remove_player that drops every human entity, whoever asked.
remove_player_all_humans(g, player_id) ==
    [players |-> Remove(g.players, player_id),
     entities |-> [id \in {e \in DOMAIN g.entities :
                            g.entities[e].entity_type # "Human"}
                    |-> g.entities[id]],
     physics |-> remove_entity(g.physics, human_id(player_id))]

\* remove_player without physics.remove_entity.
remove_player_keeps_body(g, player_id) ==
    [players |-> Remove(g.players, player_id),
     entities |-> Remove(g.entities, human_id(player_id)),
     physics |-> g.physics]

\* remove_player that keeps only the other players' human entities.
remove_player_humans_only(g, player_id) ==
    [players |-> Remove(g.players, player_id),
     entities |-> [id \in {e \in DOMAIN g.entities :
                            /\ g.entities[e].entity_type = "Human"
                            /\ e # human_id(player_id)}
                    |-> g.entities[id]],
     physics |-> remove_entity(g.physics, human_id(player_id))]

remove_player(g, player_id) ==
    [players |-> Remove(g.players, player_id),
     entities |-> Remove(g.entities, human_id(player_id)),
     physics |-> remove_entity(g.physics, human_id(player_id))]

\* update_player_position that writes the rotation only of a player who
\* is not yet moving.
update_player_position_stale(g, player_id, position, rotation, is_moving) ==
    IF player_id \in DOMAIN g.players
    THEN LET entity_id == human_id(player_id)
             g1 == [g EXCEPT !.players[player_id].position = position,
                             !.players[player_id].rotation =
                                IF g.players[player_id].is_moving
                                THEN @ ELSE rotation,
                             !.players[player_id].is_moving = is_moving]
         IN  IF entity_id \in DOMAIN g.entities
             THEN [g1 EXCEPT
                     !.entities[entity_id].position = position,
                     !.entities[entity_id].rotation = <<0, rotation, 0>>,
                     !.physics = update_human_position(g.physics, entity_id,
                                    position[1], position[2], position[3])]
             ELSE g1
    ELSE g

\* update_player_position that creates the player when the id is absent.
update_player_position_upsert(g, player_id, position, rotation, is_moving) ==
    add_player(g, [id |-> player_id, username |-> "a", position |-> position,
                   rotation |-> rotation, is_moving |-> is_moving,
                   activity |-> "Idle"])

update_player_position(g, player_id, position, rotation, is_moving) ==
    IF player_id \in DOMAIN g.players
    THEN LET entity_id == human_id(player_id)
             g1 == [g EXCEPT !.players[player_id].position = position,
                             !.players[player_id].rotation = rotation,
                             !.players[player_id].is_moving = is_moving]
         IN  IF entity_id \in DOMAIN g.entities
             THEN [g1 EXCEPT
                     !.entities[entity_id].position = position,
                     !.entities[entity_id].rotation = <<0, rotation, 0>>,
                     !.physics = update_human_position(g.physics, entity_id,
                                    position[1], position[2], position[3])]
             ELSE g1
    ELSE g

\* update_player_activity that also stops the player.
update_player_activity_stops(g, player_id, activity) ==
    IF player_id \in DOMAIN g.players
    THEN [g EXCEPT !.players[player_id].activity = activity,
                   !.players[player_id].is_moving = FALSE]
    ELSE g

update_player_activity(g, player_id, activity) ==
    IF player_id \in DOMAIN g.players
    THEN [g EXCEPT !.players[player_id].activity = activity]
    ELSE g

\* update_entity_position that forwards the position to the engine for an
\* entity of any kind.
update_entity_position_any_kind(g, entity_id, position) ==
    IF entity_id \in DOMAIN g.entities
    THEN [g EXCEPT
            !.entities[entity_id].position = position,
            !.physics = update_human_position(g.physics, entity_id,
                            position[1], position[2], position[3])]
    ELSE g

update_entity_position(g, entity_id, position) ==
    IF entity_id \in DOMAIN g.entities
    THEN [g EXCEPT
            !.entities[entity_id].position = position,
            !.physics =
                IF g.entities[entity_id].entity_type = "Human"
                THEN update_human_position(g.physics, entity_id, position[1],
                                           position[2], position[3])
                ELSE @]
    ELSE g

update_entity_rotation(g, entity_id, rotation) ==
    IF entity_id \in DOMAIN g.entities
    THEN [g EXCEPT !.entities[entity_id].rotation = rotation]
    ELSE g

get_all_players(g) == g.players
get_all_entities(g) == g.entities

step_physics(g, ball_translation) ==
    LET physics == step(g.physics, ball_translation)
    IN  [g EXCEPT
            !.physics = physics,
            !.entities =
                [id \in DOMAIN g.entities |->
                    [g.entities[id] EXCEPT
                        !.position =
                            IF get_entity_position(physics, id) # None
                            THEN get_entity_position(physics, id)
                            ELSE @,
                        !.rotation =
                            IF get_entity_rotation(physics, id) # None
                            THEN get_entity_rotation(physics, id)
                            ELSE @]]]


(***************************************************************************)
(* messages.rs: the messages the server enqueues.                          *)
(***************************************************************************)
TimeSync == [type |-> "TimeSync"]

\* The value of a send slot that carries nothing.
NoMessage == [type |-> "none"]
\* A WorldState whose entities were read before the store was written.
WorldState_stale_entities(g) ==
    [type |-> "WorldState", players |-> get_all_players(g),
     entities |-> get_all_entities(GameState_new)]

WorldState(g) ==
    [type |-> "WorldState", players |-> get_all_players(g),
     entities |-> get_all_entities(g)]

\* The fields a text must carry to deserialize as each variant of
\* GameMessage (Move's is_moving has a serde default).
RequiredFields ==
    [Join |-> {"player"},
     Leave |-> {"player_id"},
     Move |-> {"player_id", "position", "rotation"},
     SetActivity |-> {"player_id", "activity"},
     ActivityChanged |-> {"player_id", "activity"},
     WorldState |-> {"players", "entities"},
     TimeSync |-> {"game_time_minutes"}]

\* serde_json::from_str::<GameMessage>(&text).  A text is written as the
\* value of its "type" tag and the set of well-typed fields it carries.
from_str(text) ==
    IF /\ text.type \in DOMAIN RequiredFields
       /\ RequiredFields[text.type] \subseteq text.fields
    THEN "Ok" ELSE "Err"

\* Texts a client may send besides Join, Move and SetActivity: an unknown
\* tag, a Move without position and rotation, and a well-formed message of
\* each server-to-client variant.
InboundTexts ==
    {[type |-> "Teleport", fields |-> {"player_id"}],
     [type |-> "Move", fields |-> {"player_id"}],
     [type |-> "Leave", fields |-> {"player_id"}],
     [type |-> "ActivityChanged", fields |-> {"player_id", "activity"}],
     [type |-> "WorldState", fields |-> {"players", "entities"}],
     [type |-> "TimeSync", fields |-> {"game_time_minutes"}]}

\* The frames of axum's Message that are neither Text nor Close.
OtherFrames == {"Binary", "Ping", "Pong"}

\* The players a Join may carry (is_moving and activity take their serde
\* defaults).
JoinPlayers ==
    [id : PlayerIds, username : {"a"}, position : Positions,
     rotation : Rotations, is_moving : {FALSE}, activity : {"Idle"}]

(***************************************************************************)
(* State.                                                                  *)
(***************************************************************************)
VARIABLES
    game,          \* AppState.game: the GameState behind the RwLock
    lock,          \* the session whose rx_task holds the write guard across
                   \* an await, or None (every other hold is one step)
    transport,     \* per session: None (not connected), "open", "closed"
    rxpc,          \* rx_task: None, "recv", "send" (in tx.send), "done"
    txpc,          \* sender_task: None, "run", "done"
    player_id,     \* rx_task's player_id: Option<String>
    queue,         \* the session's mpsc channel (tx, rx)
    send_pending,  \* the message a suspended tx.send is carrying
    broadcast_buf, \* the broadcast channel's retained payloads, oldest first
    behind,        \* per session: payloads sent since broadcast_rx last read
    joined,        \* history: the ids each session has sent a Join for
    n_joins,       \* history: number of Joins whose add_player has run
    persist_pc,    \* entity persistence task: "tick" (interval.tick) or
                   \* "save" (in save_all_entities)
    entities,      \* the task's `entities`: the snapshot still to upsert
    saved,         \* the outcome the task logged last: None, "Ok", "Err"
    db,            \* the rows of table entities, by id
    ball,          \* the seeded ball's rigid body as the engine integrates
                   \* it: translation (1/16 cm) and linvel (cm/s)
    integration_parameters,  \* PhysicsWorld.integration_parameters
    n_ticks,       \* history: number of engine steps taken on `ball`
    game_time,     \* game time persistence task: the i64 it read last, as
                   \* four 16-bit limbs, most significant first
    game_state     \* game_state.game_time_minutes (INTEGER) of row id = 1

vars == <<game, lock, transport, rxpc, txpc, player_id, queue, send_pending,
          broadcast_buf, behind, joined, n_joins, persist_pc, entities,
          saved, db, ball, integration_parameters, n_ticks, game_time,
          game_state>>

persist_vars == <<persist_pc, entities, saved, db>>
rapier_vars == <<ball, integration_parameters, n_ticks>>
time_vars == <<game_time, game_state>>

ServerInit ==
    /\ game = GameState_new
    /\ lock = None
    /\ transport = [s \in Sessions |-> None]
    /\ rxpc = [s \in Sessions |-> None]
    /\ txpc = [s \in Sessions |-> None]
    /\ player_id = [s \in Sessions |-> None]
    /\ queue = [s \in Sessions |-> <<>>]
    /\ send_pending = [s \in Sessions |-> NoMessage]
    /\ broadcast_buf = <<>>
    /\ behind = [s \in Sessions |-> 0]
    /\ joined = [s \in Sessions |-> {}]
    /\ n_joins = 0
    /\ persist_pc = "tick"
    /\ entities = EmptyMap
    /\ saved = None
    /\ db = EmptyMap
    /\ n_ticks = 0
    /\ game_time = <<0, 0, 0, 0>>
    /\ game_state = 0

\* The sessions' and the store's specifications leave the ball to PhysicsTick
\* and its ball_translation; the engine's body is followed from BallInit.
Init ==
    /\ ServerInit
    /\ ball = bouncy_ball(-300, -400, 0, 0)
    /\ integration_parameters = [num_solver_iterations |-> 4]

\* GameState::new with the draws of create_bouncy_ball and the engine's
\* default parameters.
BallInit ==
    /\ ServerInit
    /\ ball \in {bouncy_ball(-300, -400, vel_x, vel_z) :
                    vel_x \in InitialVelocities, vel_z \in InitialVelocities}
    /\ integration_parameters \in [num_solver_iterations : SolverIterations]

\* A receiver is lagged when the slot it has to read next was overwritten.
Lagged(s) == behind[s] > BroadcastCapacity

\* A ring that keeps the oldest payloads in place of the newest.
Retained_oldest(buf, bh, tx) ==
    LET live == {s \in Sessions : tx[s] = "run" /\ bh[s] <= BroadcastCapacity}
        need == IF live = {} THEN 0
                ELSE CHOOSE n \in {bh[s] : s \in live} :
                        \A s \in live : bh[s] <= n
    IN  SubSeq(buf, 1, need)

\* The payloads some live receiver still has to read.
Retained(buf, bh, tx) ==
    LET live == {s \in Sessions : tx[s] = "run" /\ bh[s] <= BroadcastCapacity}
        need == IF live = {} THEN 0
                ELSE CHOOSE n \in {bh[s] : s \in live} :
                        \A s \in live : bh[s] <= n
    IN  SubSeq(buf, Len(buf) - need + 1, Len(buf))

(***************************************************************************)
(* websocket.rs: handle_websocket.                                         *)
(***************************************************************************)
\* Lines 24-87: split the socket, create the channel, subscribe, enqueue the
\* TimeSync, spawn both tasks.
Connect(s) ==
    /\ transport[s] = None
    /\ transport' = [transport EXCEPT ![s] = "open"]
    /\ queue' = [queue EXCEPT ![s] = <<TimeSync>>]
    /\ rxpc' = [rxpc EXCEPT ![s] = "recv"]
    /\ txpc' = [txpc EXCEPT ![s] = "run"]
    /\ UNCHANGED <<game, lock, player_id, send_pending, broadcast_buf, behind,
                   joined, n_joins, persist_vars, rapier_vars, time_vars>>

\* The client closes the connection (close frame, stream end, read error).
TransportClose(s) ==
    /\ transport[s] = "open"
    /\ transport' = [transport EXCEPT ![s] = "closed"]
    /\ UNCHANGED <<game, lock, rxpc, txpc, player_id, queue, send_pending,
                   broadcast_buf, behind, joined, n_joins,
                   persist_vars, rapier_vars, time_vars>>

\* Lines 98-118: the Join branch.  The write guard lives to the end of the
\* branch, so tx.send(world_json).await runs with the guard held: with room
\* in the queue it returns at once, with the receiver gone it fails at once,
\* with the queue full it suspends.
RxJoin(s, player) ==
    /\ rxpc[s] = "recv"
    /\ transport[s] = "open"
    /\ lock = None
    /\ n_joins < MaxJoins
    /\ player_id' = [player_id EXCEPT ![s] = player.id]
    /\ game' = add_player(game, player)
    /\ joined' = [joined EXCEPT ![s] = @ \cup {player.id}]
    /\ n_joins' = n_joins + 1
    /\ IF txpc[s] = "done"
       THEN UNCHANGED <<queue, send_pending, lock, rxpc>>
       ELSE IF Len(queue[s]) < QueueCapacity
       THEN /\ queue' = [queue EXCEPT ![s] = Append(@, WorldState(game'))]
            /\ UNCHANGED <<send_pending, lock, rxpc>>
       ELSE /\ send_pending' = [send_pending EXCEPT ![s] = WorldState(game')]
            /\ lock' = s
            /\ rxpc' = [rxpc EXCEPT ![s] = "send"]
            /\ UNCHANGED queue
    /\ UNCHANGED <<transport, txpc, broadcast_buf, behind, persist_vars,
                   rapier_vars, time_vars>>

\* Lines 116-118: the suspended tx.send completes (room in the queue) or
\* fails (receiver dropped); the branch ends and the guard is dropped.
RxSendResume(s) ==
    /\ rxpc[s] = "send"
    /\ txpc[s] = "done" \/ Len(queue[s]) < QueueCapacity
    /\ queue' = IF txpc[s] = "done" THEN queue
                ELSE [queue EXCEPT ![s] = Append(@, send_pending[s])]
    /\ send_pending' = [send_pending EXCEPT ![s] = NoMessage]
    /\ lock' = None
    /\ rxpc' = [rxpc EXCEPT ![s] = "recv"]
    /\ UNCHANGED <<game, transport, txpc, player_id, broadcast_buf, behind,
                   joined, n_joins, persist_vars, rapier_vars, time_vars>>

\* The Move branch with an ownership check: only the session that joined
\* under the id moves the player.
RxMove_owner_only(s, pid, position, rotation, is_moving) ==
    /\ rxpc[s] = "recv"
    /\ transport[s] = "open"
    /\ lock = None
    /\ game' = IF player_id[s] = pid
               THEN update_player_position(game, pid, position, rotation,
                                           is_moving)
               ELSE game
    /\ UNCHANGED <<lock, transport, rxpc, txpc, player_id, queue,
                   send_pending, broadcast_buf, behind, joined, n_joins,
                   persist_vars, rapier_vars, time_vars>>

\* Lines 120-144: the Move branch.
RxMove(s, pid, position, rotation, is_moving) ==
    /\ rxpc[s] = "recv"
    /\ transport[s] = "open"
    /\ lock = None
    /\ game' = update_player_position(game, pid, position, rotation, is_moving)
    /\ UNCHANGED <<lock, transport, rxpc, txpc, player_id, queue,
                   send_pending, broadcast_buf, behind, joined, n_joins,
                   persist_vars, rapier_vars, time_vars>>

\* Lines 146-162: the SetActivity branch.
RxSetActivity(s, pid, activity) ==
    /\ rxpc[s] = "recv"
    /\ transport[s] = "open"
    /\ lock = None
    /\ game' = update_player_activity(game, pid, activity)
    /\ UNCHANGED <<lock, transport, rxpc, txpc, player_id, queue,
                   send_pending, broadcast_buf, behind, joined, n_joins,
                   persist_vars, rapier_vars, time_vars>>

\* The Err branch ending the loop as a read error does.
RxParseError_breaks(s, text) ==
    /\ rxpc[s] = "recv"
    /\ transport[s] = "open"
    /\ lock = None
    /\ from_str(text) = "Err"
    /\ game' = IF player_id[s] # None
               THEN remove_player(game, player_id[s])
               ELSE game
    /\ rxpc' = [rxpc EXCEPT ![s] = "done"]
    /\ UNCHANGED <<lock, transport, txpc, player_id, queue, send_pending,
                   broadcast_buf, behind, joined, n_joins,
                   persist_vars, rapier_vars, time_vars>>

\* Lines 95, 163-165: the text does not parse; the error is logged and the
\* loop goes on to the next message.
RxParseError(s, text) ==
    /\ rxpc[s] = "recv"
    /\ transport[s] = "open"
    /\ from_str(text) = "Err"
    /\ UNCHANGED vars

\* The fallthrough branch treating a Leave as the session's leaving: the
\* player the session joined as is removed.
RxIgnored_leave(s, text) ==
    /\ rxpc[s] = "recv"
    /\ transport[s] = "open"
    /\ lock = None
    /\ from_str(text) = "Ok"
    /\ text.type \notin {"Join", "Move", "SetActivity"}
    /\ game' = IF text.type = "Leave" /\ player_id[s] # None
               THEN remove_player(game, player_id[s])
               ELSE game
    /\ UNCHANGED <<lock, transport, rxpc, txpc, player_id, queue,
                   send_pending, broadcast_buf, behind, joined, n_joins,
                   persist_vars, rapier_vars, time_vars>>

\* Line 166: a message of another variant is dropped.
RxIgnored(s, text) ==
    /\ rxpc[s] = "recv"
    /\ transport[s] = "open"
    /\ from_str(text) = "Ok"
    /\ text.type \notin {"Join", "Move", "SetActivity"}
    /\ UNCHANGED vars

\* Line 177: a frame that is neither Text nor Close is dropped.
RxOtherFrame(s, frame) ==
    /\ rxpc[s] = "recv"
    /\ transport[s] = "open"
    /\ frame \in OtherFrames
    /\ UNCHANGED vars

\* The cleanup without the test on player_id: a session that never joined
\* removes player "p1".
RxDisconnect_unconditional(s) ==
    /\ rxpc[s] = "recv"
    /\ transport[s] = "closed"
    /\ lock = None
    /\ game' = remove_player(game, IF player_id[s] # None
                                   THEN player_id[s] ELSE "p1")
    /\ rxpc' = [rxpc EXCEPT ![s] = "done"]
    /\ UNCHANGED <<lock, transport, txpc, player_id, queue, send_pending,
                   broadcast_buf, behind, joined, n_joins,
                   persist_vars, rapier_vars, time_vars>>

\* The cleanup removing every player the session sent a Join for.
RxDisconnect_all_joined(s) ==
    /\ rxpc[s] = "recv"
    /\ transport[s] = "closed"
    /\ player_id[s] = None \/ lock = None
    /\ game' = LET rm(g, p) == IF p \in joined[s] THEN remove_player(g, p)
                               ELSE g
               IN  rm(rm(game, "p1"), "p2")
    /\ rxpc' = [rxpc EXCEPT ![s] = "done"]
    /\ UNCHANGED <<lock, transport, txpc, player_id, queue, send_pending,
                   broadcast_buf, behind, joined, n_joins,
                   persist_vars, rapier_vars, time_vars>>

\* Lines 169-186: the loop ends (Close, error or end of stream), then the
\* cleanup; rx_task ends and drops tx.
RxDisconnect(s) ==
    /\ rxpc[s] = "recv"
    /\ transport[s] = "closed"
    /\ player_id[s] = None \/ lock = None
    /\ game' = IF player_id[s] # None
               THEN remove_player(game, player_id[s])
               ELSE game
    /\ rxpc' = [rxpc EXCEPT ![s] = "done"]
    /\ UNCHANGED <<lock, transport, txpc, player_id, queue, send_pending,
                   broadcast_buf, behind, joined, n_joins,
                   persist_vars, rapier_vars, time_vars>>

\* sender_task ends: rx and broadcast_rx are dropped.
SenderHalt(s) ==
    /\ txpc' = [txpc EXCEPT ![s] = "done"]
    /\ queue' = [queue EXCEPT ![s] = <<>>]
    /\ broadcast_buf' = Retained(broadcast_buf, behind, txpc')
    /\ behind' = [behind EXCEPT ![s] = IF Lagged(s) THEN @ ELSE 0]
    /\ UNCHANGED <<game, lock, transport, rxpc, player_id, send_pending,
                   joined, n_joins, persist_vars, rapier_vars, time_vars>>

\* A sender_task that writes the newest direct message first.
SenderDirect_newest_first(s) ==
    /\ txpc[s] = "run"
    /\ transport[s] = "open"
    /\ queue[s] # <<>>
    /\ queue' = [queue EXCEPT ![s] = SubSeq(@, 1, Len(@) - 1)]
    /\ UNCHANGED <<game, lock, transport, rxpc, txpc, player_id, send_pending,
                   broadcast_buf, behind, joined, n_joins,
                   persist_vars, rapier_vars, time_vars>>

\* Lines 58-64: a direct message is taken from rx and written to the socket.
SenderDirect(s) ==
    /\ txpc[s] = "run"
    /\ transport[s] = "open"
    /\ queue[s] # <<>>
    /\ queue' = [queue EXCEPT ![s] = Tail(@)]
    /\ UNCHANGED <<game, lock, transport, rxpc, txpc, player_id, send_pending,
                   broadcast_buf, behind, joined, n_joins,
                   persist_vars, rapier_vars, time_vars>>

\* Line 65: rx.recv() returns None: tx was dropped and the queue is empty.
SenderChannelClosed(s) ==
    /\ txpc[s] = "run"
    /\ rxpc[s] = "done"
    /\ queue[s] = <<>>
    /\ SenderHalt(s)

\* Lines 69-75: a broadcast payload is received and written to the socket.
SenderBroadcast(s) ==
    /\ txpc[s] = "run"
    /\ transport[s] = "open"
    /\ behind[s] > 0
    /\ ~Lagged(s)
    /\ behind' = [behind EXCEPT ![s] = @ - 1]
    /\ broadcast_buf' = Retained(broadcast_buf, behind', txpc)
    /\ UNCHANGED <<game, lock, transport, rxpc, txpc, player_id, queue,
                   send_pending, joined, n_joins, persist_vars, rapier_vars,
                   time_vars>>

\* The Err branch going on with the loop: the receiver skips what it
\* missed and reads on from the next payload.
SenderLagged_resyncs(s) ==
    /\ txpc[s] = "run"
    /\ Lagged(s)
    /\ behind' = [behind EXCEPT ![s] = 0]
    /\ UNCHANGED <<game, lock, transport, rxpc, txpc, player_id, queue,
                   send_pending, broadcast_buf, joined, n_joins,
                   persist_vars, rapier_vars, time_vars>>

\* Line 76: broadcast_rx.recv() returns Err(Lagged).
SenderLagged(s) ==
    /\ txpc[s] = "run"
    /\ Lagged(s)
    /\ SenderHalt(s)

\* Lines 61-63, 72-74, 81-83: a write to the closed socket fails (at the
\* latest the next ping).
SenderWriteError(s) ==
    /\ txpc[s] = "run"
    /\ transport[s] = "closed"
    /\ SenderHalt(s)

(***************************************************************************)
(* main.rs: the background loops.                                          *)
(***************************************************************************)
\* Lines 121-130: the physics task.
PhysicsTick(ball_translation) ==
    /\ lock = None
    /\ game' = step_physics(game, ball_translation)
    /\ UNCHANGED <<lock, transport, rxpc, txpc, player_id, queue,
                   send_pending, broadcast_buf, behind, joined, n_joins,
                   persist_vars, rapier_vars, time_vars>>

\* broadcast::Sender::send: the payload takes the next slot of the ring; a
\* receiver already BroadcastCapacity behind loses its oldest payload.
broadcast_send(payload) ==
    /\ behind' = [s \in Sessions |->
                    IF txpc[s] = "run" /\ ~Lagged(s)
                    THEN behind[s] + 1 ELSE behind[s]]
    /\ broadcast_buf' = Retained(Append(broadcast_buf, payload), behind', txpc)

\* Lines 137-156: the broadcast task.
BroadcastTick ==
    /\ lock = None
    /\ broadcast_send(WorldState(game))
    /\ UNCHANGED <<game, lock, transport, rxpc, txpc, player_id, queue,
                   send_pending, joined, n_joins, persist_vars, rapier_vars,
                   time_vars>>

\* Lines 121-130 with the engine's step spelled out for the seeded ball:
\* PhysicsWorld::step perturbs and integrates the ball, and step_physics
\* copies the translation the engine holds into the store.
BallTick(dx, dz) ==
    /\ lock = None
    /\ n_ticks < MaxTicks
    /\ ball' = pipeline_step(perturb(ball, dx, dz),
                             integration_parameters.num_solver_iterations)
    /\ game' = step_physics(game, Cm(ball'.translation))
    /\ n_ticks' = n_ticks + 1
    /\ UNCHANGED <<lock, transport, rxpc, txpc, player_id, queue,
                   send_pending, broadcast_buf, behind, joined, n_joins,
                   persist_vars, integration_parameters,
                   time_vars>>

(***************************************************************************)
(* db.rs and main.rs lines 97-116: the entity persistence task.            *)
(***************************************************************************)
\* `x as i32` on a float that holds a whole number: the number, saturated to
\* the range of i32.
as_i32(x) ==
    IF x > 2147483647 THEN 2147483647
    ELSE IF x < -2147483647 - 1 THEN -2147483647 - 1 ELSE x

as_str(entity_type) == IF entity_type = "Human" THEN "human" ELSE "ball"

\* save_all_entities lines 144-153: the row built from an entity.
EntityData(entity) ==
    [id |-> entity.id,
     entity_type_name |-> as_str(entity.entity_type),
     position |-> <<as_i32(entity.position[1]), as_i32(entity.position[2]),
                    as_i32(entity.position[3])>>,
     rotation |-> <<as_i32(entity.rotation[1]), as_i32(entity.rotation[2]),
                    as_i32(entity.rotation[3])>>]

\* No entity id of the server parses as a UUID ("ball_..." and "human_..."),
\* so the key is the version 5 UUID derived from the string.
uuid_id(id) == <<"v5", id>>

\* upsert_entity when every query succeeds: INSERT ... ON CONFLICT (id) DO
\* UPDATE.
upsert_entity(rows, data) ==
    Insert(rows, uuid_id(data.id),
           [entity_type_name |-> data.entity_type_name,
            position |-> data.position, rotation |-> data.rotation])

server_vars == <<game, lock, transport, rxpc, txpc, player_id, queue,
                 send_pending, broadcast_buf, behind, joined, n_joins>>

\* Lines 104-109: the interval fires, the task takes the read lock, copies
\* the entities and drops the guard.
PersistTick ==
    /\ persist_pc = "tick"
    /\ lock = None
    /\ entities' = get_all_entities(game)
    /\ persist_pc' = "save"
    /\ UNCHANGED <<server_vars, saved, db, rapier_vars, time_vars>>

\* save_all_entities: one turn of the loop whose upsert succeeds.  The Vec
\* comes from HashMap::values, so any entity may be the next one.
UpsertEntity(id) ==
    /\ persist_pc = "save"
    /\ id \in DOMAIN entities
    /\ db' = upsert_entity(db, EntityData(entities[id]))
    /\ entities' = Remove(entities, id)
    /\ UNCHANGED <<server_vars, persist_pc, saved, rapier_vars, time_vars>>

\* save_all_entities logging the failed upsert and going on with the next
\* entity.
SaveError_continues ==
    /\ persist_pc = "save"
    /\ entities # EmptyMap
    /\ \E id \in DOMAIN entities : entities' = Remove(entities, id)
    /\ saved' = "Err"
    /\ UNCHANGED <<server_vars, persist_pc, db, rapier_vars, time_vars>>

\* save_all_entities: a query of the next upsert fails and `?` returns the
\* error; main logs it (lines 111-112) and waits for the next tick.
SaveError ==
    /\ persist_pc = "save"
    /\ entities # EmptyMap
    /\ entities' = EmptyMap
    /\ persist_pc' = "tick"
    /\ saved' = "Err"
    /\ UNCHANGED <<server_vars, db, rapier_vars, time_vars>>

\* save_all_entities returns Ok(()) after the last entity (lines 113-114).
SaveOk ==
    /\ persist_pc = "save"
    /\ entities = EmptyMap
    /\ persist_pc' = "tick"
    /\ saved' = "Ok"
    /\ UNCHANGED <<server_vars, entities, db, rapier_vars, time_vars>>

(***************************************************************************)
(* db.rs lines 34-41 and main.rs lines 83-95: the game time persistence    *)
(* task.  An i64 is the tuple of its four 16-bit limbs, most significant   *)
(* first, in two's complement; an i32 is an integer.                       *)
(***************************************************************************)
\* get_game_time_minutes: the Unix time in seconds as i64.  The readings
\* followed lie around 1,800,000,000 (the year 2027), 2^31 (the year 2038)
\* and 2^32 (the year 2106).
UnixSeconds ==
    {<<0, l2, l1, l0>> : l2 \in {0, 1}, l1 \in {27465, 32767, 32768, 65535},
                         l0 \in {0, 60, 65535}}

\* `x as i32` on an i64: the low 32 bits, read as two's complement.
i64_as_i32(x) ==
    IF x[3] >= 32768 THEN (x[3] - 65536) * 65536 + x[4]
    ELSE x[3] * 65536 + x[4]

\* The i64 that has the value of an i32 (sign extension).
i32_as_i64(v) ==
    <<IF v < 0 THEN 65535 ELSE 0, IF v < 0 THEN 65535 ELSE 0,
      (v \div 65536) % 65536, v % 65536>>

\* main.rs lines 86-92 with set_game_time_minutes returning Ok: the UPDATE
\* has run with $1 bound to game_time_minutes as i32.
PersistGameTime(now) ==
    /\ game_time' = now
    /\ game_state' = i64_as_i32(now)
    /\ UNCHANGED <<server_vars, persist_vars, rapier_vars>>

\* The UPDATE fails: the error is logged and the row is as it was.
PersistGameTimeError(now) ==
    /\ game_time' = now
    /\ UNCHANGED <<server_vars, persist_vars, rapier_vars, game_state>>

TimeNext ==
    \/ \E now \in UnixSeconds : PersistGameTime(now)
    \/ \E now \in UnixSeconds : PersistGameTimeError(now)

TimeSpec == Init /\ [][TimeNext]_vars

(***************************************************************************)
(* The World Store on its own: the GameState methods the handlers and the  *)
(* physics task call, each under the write guard, in any order and with    *)
(* any argument.  Every store state the sessions can produce is a state of *)
(* this system, and with enough sessions every state of it is produced.    *)
(***************************************************************************)
session_vars == <<lock, transport, rxpc, txpc, player_id, queue, send_pending,
                  broadcast_buf, behind, joined, persist_vars, rapier_vars,
                  time_vars>>

AddPlayer(player) ==
    /\ n_joins < MaxJoins
    /\ game' = add_player(game, player)
    /\ n_joins' = n_joins + 1
    /\ UNCHANGED session_vars

RemovePlayer(pid) ==
    /\ game' = remove_player(game, pid)
    /\ UNCHANGED <<session_vars, n_joins>>

UpdatePlayerPosition(pid, position, rotation, is_moving) ==
    /\ game' = update_player_position(game, pid, position, rotation, is_moving)
    /\ UNCHANGED <<session_vars, n_joins>>

UpdatePlayerActivity(pid, activity) ==
    /\ game' = update_player_activity(game, pid, activity)
    /\ UNCHANGED <<session_vars, n_joins>>

UpdateEntityPosition(entity_id, position) ==
    /\ game' = update_entity_position(game, entity_id, position)
    /\ UNCHANGED <<session_vars, n_joins>>

UpdateEntityRotation(entity_id, rotation) ==
    /\ game' = update_entity_rotation(game, entity_id, rotation)
    /\ UNCHANGED <<session_vars, n_joins>>

StoreNext ==
    \/ \E player \in JoinPlayers : AddPlayer(player)
    \/ \E pid \in PlayerIds : RemovePlayer(pid)
    \/ \E pid \in MsgPlayerIds, m \in MoveInputs :
            UpdatePlayerPosition(pid, m[1], m[2], m[3])
    \/ \E pid \in MsgPlayerIds, activity \in Activities :
            UpdatePlayerActivity(pid, activity)
    \/ \E ball_translation \in BallPositions : PhysicsTick(ball_translation)

StoreSpec == Init /\ [][StoreNext]_vars

(***************************************************************************)
(* The sessions and the background loops.  The values the clients send are *)
(* fixed to the ones a fresh player has (SessionJoins, SessionMoves,       *)
(* SessionActivities) and the ball rests (SessionBall): the store's states *)
(* then differ only in the players present, which is what the life cycle   *)
(* of a session is about.                                                  *)
(***************************************************************************)
SessionJoins ==
    {j \in JoinPlayers : j.position = <<0, 0, 0>> /\ j.rotation = 0}
SessionMoves == {<<(<<0, 0, 0>>), 0, FALSE>>}
SessionActivities == {"Idle"}
SessionBall == {<<-300, 500, -400>>}

Next ==
    \/ \E s \in Sessions : Connect(s)
    \/ \E s \in Sessions : TransportClose(s)
    \/ \E s \in Sessions, player \in SessionJoins : RxJoin(s, player)
    \/ \E s \in Sessions : RxSendResume(s)
    \/ \E s \in Sessions, pid \in MsgPlayerIds, m \in SessionMoves :
            RxMove(s, pid, m[1], m[2], m[3])
    \/ \E s \in Sessions, pid \in MsgPlayerIds, activity \in SessionActivities :
            RxSetActivity(s, pid, activity)
    \/ \E s \in Sessions, text \in InboundTexts : RxParseError(s, text)
    \/ \E s \in Sessions, text \in InboundTexts : RxIgnored(s, text)
    \/ \E s \in Sessions, frame \in OtherFrames : RxOtherFrame(s, frame)
    \/ \E s \in Sessions : RxDisconnect(s)
    \/ \E s \in Sessions : SenderDirect(s)
    \/ \E s \in Sessions : SenderChannelClosed(s)
    \/ \E s \in Sessions : SenderBroadcast(s)
    \/ \E s \in Sessions : SenderLagged(s)
    \/ \E s \in Sessions : SenderWriteError(s)
    \/ \E ball_translation \in SessionBall : PhysicsTick(ball_translation)
    \/ BroadcastTick

Spec == Init /\ [][Next]_vars

\* What the runtime guarantees: a task that can run does run, and the
\* interval timers fire.  What depends on the client is not fair: its
\* messages, its closing the connection, and its reading from the socket
\* (SenderDirect and SenderBroadcast complete only when it reads).
Fairness ==
    /\ \A s \in Sessions :
        /\ WF_vars(RxSendResume(s))
        /\ WF_vars(RxDisconnect(s))
        /\ WF_vars(SenderChannelClosed(s))
        /\ WF_vars(SenderLagged(s))
        /\ WF_vars(SenderWriteError(s))
    /\ WF_vars(BroadcastTick)
    /\ WF_vars(\E ball_translation \in SessionBall :
                    PhysicsTick(ball_translation))

FairSpec == Spec /\ Fairness

(***************************************************************************)
(* The inbound side of the sessions with Moves and SetActivity that change *)
(* the player they name (OwnerMoves, OwnerActivities), sent by any session *)
(* for any id; no background loop runs.                                    *)
(***************************************************************************)
OwnerMoves == {<<(<<10, 0, 0>>), 1, TRUE>>}
OwnerActivities == {"Sleeping"}

OwnerNext ==
    \/ \E s \in Sessions : Connect(s)
    \/ \E s \in Sessions : TransportClose(s)
    \/ \E s \in Sessions, player \in SessionJoins : RxJoin(s, player)
    \/ \E s \in Sessions : RxSendResume(s)
    \/ \E s \in Sessions, pid \in MsgPlayerIds, m \in OwnerMoves :
            RxMove(s, pid, m[1], m[2], m[3])
    \/ \E s \in Sessions, pid \in MsgPlayerIds, activity \in OwnerActivities :
            RxSetActivity(s, pid, activity)
    \/ \E s \in Sessions : RxDisconnect(s)
    \/ \E s \in Sessions : SenderDirect(s)
    \/ \E s \in Sessions : SenderChannelClosed(s)
    \/ \E s \in Sessions : SenderWriteError(s)

OwnerSpec == Init /\ [][OwnerNext]_vars

(***************************************************************************)
(* The World Store with the entity-level methods of GameState, which no    *)
(* handler of the server calls: update_entity_position and                 *)
(* update_entity_rotation next to add_player, remove_player and the        *)
(* physics tick.                                                           *)
(***************************************************************************)
EntityRotations == {<<0, 0, 0>>, <<0, 1, 0>>}

EntityNext ==
    \/ \E player \in SessionJoins : AddPlayer(player)
    \/ \E pid \in PlayerIds : RemovePlayer(pid)
    \/ \E entity_id \in {BallId, "human_p1", "human_ghost"},
           position \in Positions :
            UpdateEntityPosition(entity_id, position)
    \/ \E entity_id \in {BallId, "human_p1", "human_ghost"},
           rotation \in EntityRotations :
            UpdateEntityRotation(entity_id, rotation)
    \/ \E ball_translation \in BallPositions : PhysicsTick(ball_translation)

EntitySpec == Init /\ [][EntityNext]_vars

(***************************************************************************)
(* The entity persistence task next to one session and the physics and     *)
(* broadcast tasks.  The session is the one whose client may stop reading. *)
(***************************************************************************)
PersistNext ==
    \/ Connect("s1")
    \/ \E player \in SessionJoins : RxJoin("s1", player)
    \/ RxSendResume("s1")
    \/ SenderDirect("s1")
    \/ SenderBroadcast("s1")
    \/ SenderLagged("s1")
    \/ \E ball_translation \in SessionBall : PhysicsTick(ball_translation)
    \/ BroadcastTick
    \/ PersistTick
    \/ \E id \in DOMAIN entities : UpsertEntity(id)
    \/ SaveError
    \/ SaveOk

PersistSpec == Init /\ [][PersistNext]_vars

\* The timers fire, a task that can run does run, and a query to the
\* database returns, with a result or with an error.  The client's reading
\* from the socket is not fair.
PersistFairness ==
    /\ WF_vars(RxSendResume("s1"))
    /\ WF_vars(SenderLagged("s1"))
    /\ WF_vars(\E ball_translation \in SessionBall :
                    PhysicsTick(ball_translation))
    /\ WF_vars(BroadcastTick)
    /\ WF_vars(PersistTick)
    /\ WF_vars(SaveError \/ SaveOk \/ \E id \in DOMAIN entities :
                                        UpsertEntity(id))

PersistFairSpec == PersistSpec /\ PersistFairness

(***************************************************************************)
(* The physics task on its own, with the engine's integration of the ball. *)
(***************************************************************************)
BallNext == \E dx \in Perturbations, dz \in Perturbations : BallTick(dx, dz)

BallSpec == BallInit /\ [][BallNext]_vars

(***************************************************************************)
(* Properties of the server.                                               *)
(***************************************************************************)
HumanIds(g) == {id \in DOMAIN g.entities : g.entities[id].entity_type = "Human"}

\* C1: in every reachable state of the World Store a Player with id P is
\* present if and only if an entity with id "human_"+P and kind Human is
\* present.
C1_PlayerIffHumanEntity ==
    /\ \A p \in DOMAIN game.players :
        /\ human_id(p) \in DOMAIN game.entities
        /\ game.entities[human_id(p)].entity_type = "Human"
    /\ \A id \in HumanIds(game) :
        \E p \in DOMAIN game.players : id = human_id(p)

\* A remove_player has run (two Joins were made and a single human body
\* exists), the present player has been moved by a Move (is_moving is set),
\* and the physics has stepped (the ball has left its first position).
C1_Witness ==
    /\ n_joins >= 2
    /\ "p1" \in DOMAIN game.players
    /\ game.players["p1"].position = <<10, 0, 0>>
    /\ game.players["p1"].is_moving
    /\ "p2" \notin DOMAIN game.players
    /\ Cardinality({h \in DOMAIN game.physics.rigid_body_set :
                        h[1] \in {human_id(q) : q \in PlayerIds}}) = 1
    /\ game.entities[BallId].position # <<-300, 500, -400>>

\* C2: for every live Player P the entity "human_"+P has the player's
\* position and the rotation (0, player.rotation, 0), also after a physics
\* tick that follows a Join or Move with a non-zero rotation.
C2_EntityMirrorsPlayer ==
    \A p \in DOMAIN game.players :
        /\ human_id(p) \in DOMAIN game.entities
        /\ game.entities[human_id(p)].position = game.players[p].position
        /\ game.entities[human_id(p)].rotation =
                <<0, game.players[p].rotation, 0>>

\* No operation is in progress: no rx_task is inside a handler.
Quiescent == lock = None /\ \A s \in Sessions : rxpc[s] # "send"

\* The sessions that joined and whose disconnect cleanup has completed.
CompletedLeaves ==
    {s \in Sessions : rxpc[s] = "done" /\ player_id[s] # None}

\* C3: at any quiescent point the number of Player entries equals the
\* number of completed Joins minus the number of completed disconnects of
\* joined sessions.
C3_PlayerCount ==
    Quiescent =>
        Cardinality(DOMAIN game.players) =
            n_joins - Cardinality(CompletedLeaves)

\* C4: every Player entry was joined by a session whose rx_task has not yet
\* finished its disconnect cleanup.
C4_PlayerHasLiveSession ==
    \A p \in DOMAIN game.players :
        \E s \in Sessions : p \in joined[s] /\ rxpc[s] # "done"

Absent(g, p) ==
    p \notin DOMAIN g.players /\ human_id(p) \notin DOMAIN g.entities

Shows(msg, p) ==
    /\ msg.type = "WorldState"
    /\ p \in DOMAIN msg.players \/ human_id(p) \in DOMAIN msg.entities

\* The step is the Join branch for player id p.
JoinOf(p) ==
    \E s \in Sessions, player \in SessionJoins :
        player.id = p /\ RxJoin(s, player)

\* The WorldState snapshots taken in the step: by the broadcast task, or by
\* a Join branch (enqueued at once, or carried by the suspended send).
SnapshotsTaken ==
    (IF (\E s \in Sessions : behind'[s] = behind[s] + 1)
        /\ broadcast_buf' # <<>>
     THEN {broadcast_buf'[Len(broadcast_buf')]} ELSE {})
    \cup {queue'[s][Len(queue'[s])] :
            s \in {x \in Sessions : /\ rxpc[x] = "recv"
                                    /\ Len(queue'[x]) = Len(queue[x]) + 1}}
    \cup {send_pending'[s] :
            s \in {x \in Sessions : rxpc[x] = "recv" /\ rxpc'[x] = "send"}}

\* The step is the disconnect cleanup of session s.
CleanupOf(s) == rxpc[s] = "recv" /\ rxpc'[s] = "done"

\* The players session s joined that no other session joined.
JoinedOnlyBy(s) ==
    {p \in joined[s] : \A t \in Sessions \ {s} : p \notin joined[t]}

\* Once absent, a player stays absent and is in no snapshot taken, until a
\* Join for it.
StaysRemoved ==
    \A p \in PlayerIds :
        (Absent(game, p) /\ ~JoinOf(p))
            => /\ Absent(game', p)
               /\ \A msg \in SnapshotsTaken : ~Shows(msg, p)

\* C5: when a session that joined as P ends on the close of its transport,
\* remove_player(P) has been performed; and from then on, until a Join for
\* P, the store holds neither player P nor entity "human_"+P and no
\* WorldState snapshot that is taken shows them.
C5_Step ==
    /\ \A s \in Sessions :
        CleanupOf(s) => \A p \in JoinedOnlyBy(s) : Absent(game', p)
    /\ StaysRemoved

C5_RemovedOnDisconnect == [][C5_Step]_vars

\* The second half of C5 alone.
C5_StaysRemoved == [][StaysRemoved]_vars

\* C6: for every joined session, the halting of sender_task leads to the
\* store cleanup of that session (rx_task ends, having removed the player).
C6_OutboundHaltTriggersCleanup ==
    \A s \in Sessions :
        (txpc[s] = "done" /\ player_id[s] # None) ~> (rxpc[s] = "done")

\* C7: once sender_task has halted, no Join, Move or SetActivity of the
\* session changes the store; once rx_task has halted, sender_task writes
\* nothing more to the socket.
C7_Step ==
    \A s \in Sessions :
        /\ txpc[s] = "done" =>
            ~ \/ \E player \in SessionJoins : RxJoin(s, player)
              \/ /\ game' # game
                 /\ \/ \E pid \in MsgPlayerIds, m \in SessionMoves :
                            RxMove(s, pid, m[1], m[2], m[3])
                    \/ \E pid \in MsgPlayerIds, a \in SessionActivities :
                            RxSetActivity(s, pid, a)
        /\ rxpc[s] = "done" => ~(SenderDirect(s) \/ SenderBroadcast(s))

C7_OtherHalfTornDown == [][C7_Step]_vars

\* C8: a send to a session's full queue never suspends the producer.
C8_ProducerNeverBlocks ==
    \A s \in Sessions :
        ~(rxpc[s] = "send" /\ Len(queue[s]) = QueueCapacity)

\* C9: no task holds the World Store lock while it is suspended.
C9_NoLockAcrossAwait ==
    \A s \in Sessions : lock = s => rxpc[s] \notin {"send"}

\* C10: once a session's transport is closed, both its tasks eventually
\* terminate (rx_task ends with the cleanup of the session's player).
C10_ClosedSessionTerminates ==
    \A s \in Sessions :
        (transport[s] = "closed") ~> (rxpc[s] = "done" /\ txpc[s] = "done")

\* C11: the cleanup of a session that never had a Join accepted changes
\* nothing in the World Store (players, entities, physics).
C11_Step ==
    \A s \in Sessions :
        (CleanupOf(s) /\ joined[s] = {}) => game' = game

C11_NoJoinNoMutation == [][C11_Step]_vars

\* A session has connected and ended without a Join while the store holds a
\* player that another session joined.
C11_Witness ==
    \E s \in Sessions, t \in Sessions :
        /\ rxpc[s] = "done"
        /\ joined[s] = {}
        /\ player_id[t] # None
        /\ player_id[t] \in DOMAIN game.players
        /\ human_id(player_id[t]) \in DOMAIN game.physics.entity_handles

\* The ids of MsgPlayerIds that name no player of the store.
AbsentIds == MsgPlayerIds \ DOMAIN game.players

\* C12: a Move or SetActivity that names an id not in the store, whatever
\* it carries, changes nothing: not the store, not the session's queue, not
\* the session's tasks or transport.
C12_Step ==
    \A pid \in AbsentIds :
        /\ \A m \in MoveInputs :
            update_player_position(game, pid, m[1], m[2], m[3]) = game
        /\ \A activity \in Activities :
            update_player_activity(game, pid, activity) = game
        /\ \/ UNCHANGED vars
           \/ ~ \E s \in Sessions :
                \/ \E m \in SessionMoves : RxMove(s, pid, m[1], m[2], m[3])
                \/ \E activity \in SessionActivities :
                        RxSetActivity(s, pid, activity)

C12_UnknownIdIsNoOp == [][C12_Step]_vars

\* A session whose rx_task is reading can send a Move for "ghost" or for a
\* player that has left, while the store holds another player: the branch
\* leaves every variable as it was, so this is also the state after it ran.
C12_Witness ==
    \E s \in Sessions :
        /\ rxpc[s] = "recv"
        /\ transport[s] = "open"
        /\ lock = None
        /\ queue[s] # <<>>
        /\ DOMAIN game.players = {"p1"}
        /\ n_joins >= 2
        /\ Cardinality(DOMAIN game.physics.rigid_body_set) = 2

\* The Join, Move and SetActivity steps session s can take.
ValidEnabled(s) ==
    /\ rxpc[s] = "recv"
    /\ transport[s] = "open"
    /\ lock = None

\* C13: a text that does not parse changes nothing in the World Store and
\* does not end the session: rx_task is reading again, and whatever valid
\* message could be applied before can be applied after.
C13_Step ==
    \A s \in Sessions, text \in InboundTexts :
        RxParseError(s, text) =>
            /\ from_str(text) = "Err"
            /\ game' = game
            /\ rxpc'[s] = "recv"
            /\ transport'[s] = "open"
            /\ player_id'[s] = player_id[s]
            /\ queue'[s] = queue[s]
            /\ ValidEnabled(s) => ValidEnabled(s)'

C13_MalformedIsSkipped == [][C13_Step]_vars

\* A joined session is reading with the store unlocked and both players
\* present; the Err branch changes no variable, so this is the state in
\* which a malformed text is received and the state after it.
C13_Witness ==
    \E s \in Sessions :
        /\ ValidEnabled(s)
        /\ player_id[s] # None
        /\ txpc[s] = "run"
        /\ DOMAIN game.players = PlayerIds
        /\ \E text \in InboundTexts : from_str(text) = "Err"

\* C14: every Join of a session puts a WorldState snapshot on that
\* session's queue (at once, or by the send it is suspended in) and on no
\* other queue; the snapshot is the store as add_player left it, with the
\* joining player and its human entity at the joined position.
C14_Step ==
    \A s \in Sessions, player \in SessionJoins :
        RxJoin(s, player) =>
            LET snapshot == WorldState(game')
            IN  /\ \/ queue'[s] = Append(queue[s], snapshot)
                   \/ rxpc'[s] = "send" /\ send_pending'[s] = snapshot
                /\ \A t \in Sessions \ {s} : queue'[t] = queue[t]
                /\ player.id \in DOMAIN snapshot.players
                /\ snapshot.players[player.id].position = player.position
                /\ human_id(player.id) \in DOMAIN snapshot.entities
                /\ snapshot.entities[human_id(player.id)].position
                        = player.position

C14_JoinEnqueuesSnapshot == [][C14_Step]_vars

\* The payloads broadcast_rx of session s will return, oldest first.
Pending(buf, bh, s) == SubSeq(buf, Len(buf) - bh[s] + 1, Len(buf))

\* The sessions whose broadcast_rx is read by a running sender_task before
\* and after the step.
Receivers ==
    {s \in Sessions : txpc[s] = "run" /\ txpc'[s] = "run" /\ ~Lagged(s)}

\* The receivers the step gives one more payload to read.
Recipients ==
    {s \in Receivers : /\ behind'[s] = behind[s] + 1
                       /\ behind'[s] <= BroadcastCapacity}

\* C15: a broadcast tick takes one snapshot of the store, and what each
\* recipient of the tick gets to read for it is that one payload; nothing
\* but the tick adds to what a receiver will read, and nothing but its own
\* read takes from it.
C15_Step ==
    /\ \A s \in Recipients :
        Pending(broadcast_buf', behind', s) =
            Append(Pending(broadcast_buf, behind, s), WorldState(game))
    /\ \A s \in Recipients, t \in Recipients :
        LET ps == Pending(broadcast_buf', behind', s)
            pt == Pending(broadcast_buf', behind', t)
        IN  ps[Len(ps)] = pt[Len(pt)]
    /\ \A s \in Receivers \ Recipients :
        \/ behind'[s] > BroadcastCapacity
        \/ Pending(broadcast_buf', behind', s)
                = Pending(broadcast_buf, behind, s)
        \/ /\ SenderBroadcast(s)
           /\ Pending(broadcast_buf', behind', s)
                = Tail(Pending(broadcast_buf, behind, s))

C15_SameTickSamePayload == [][C15_Step]_vars

\* Both sessions have the payload of one tick to read, and it shows both
\* players.
C15_Witness ==
    /\ \A s \in Sessions : txpc[s] = "run" /\ behind[s] = 1
    /\ Len(broadcast_buf) = 1
    /\ DOMAIN broadcast_buf[1].players = PlayerIds

\* The snapshot msg shows player p and entity "human_"+p, both at position x.
ShownAt(msg, p, x) ==
    /\ p \in DOMAIN msg.players
    /\ msg.players[p].position = x
    /\ human_id(p) \in DOMAIN msg.entities
    /\ msg.entities[human_id(p)].position = x

\* The store after one call that is not a Join, Move or removal of p: a
\* physics tick, a Move of another id, a SetActivity, a Join or a removal of
\* another player.
OtherCalls(g, p) ==
    {step_physics(g, ball_translation) : ball_translation \in BallPositions}
    \cup {update_player_position(g, q, m[1], m[2], m[3]) :
            q \in MsgPlayerIds \ {p}, m \in MoveInputs}
    \cup {update_player_activity(g, q, activity) :
            q \in MsgPlayerIds, activity \in Activities}
    \cup {add_player(g, player) :
            player \in {j \in JoinPlayers : j.id # p}}
    \cup {remove_player(g, q) : q \in PlayerIds \ {p}}

OthersConnected(s) ==
    {t \in Sessions \ {s} : /\ player_id[t] # None
                            /\ rxpc[t] \in {"recv", "send"}
                            /\ transport[t] = "open"}

\* C17: the disconnect cleanup of one session leaves the player of every
\* other joined, still connected session present and unchanged, with its
\* human entity, and leaves the ball as it was.
C17_Step ==
    \A s \in Sessions :
        CleanupOf(s) =>
            /\ \A t \in OthersConnected(s) :
                LET p == player_id[t]
                IN  p \in DOMAIN game.players =>
                        /\ p \in DOMAIN game'.players
                        /\ game'.players[p] = game.players[p]
                        /\ human_id(p) \in DOMAIN game'.entities
            /\ game'.entities[BallId] = game.entities[BallId]

C17_SessionIsolation == [][C17_Step]_vars

\* The rigid bodies that were created for entity_id.
BodiesOf(g, entity_id) ==
    {h \in DOMAIN g.physics.rigid_body_set : h[1] = entity_id}

\* C18: when player P is not in the store (at the start and after every
\* remove_player(P)), the store has no entity "human_"+P and the physics
\* engine has no rigid body that was created for "human_"+P.
C18_NoOrphanBody ==
    \A p \in PlayerIds :
        p \notin DOMAIN game.players =>
            /\ human_id(p) \notin DOMAIN game.entities
            /\ human_id(p) \notin DOMAIN game.physics.entity_handles
            /\ BodiesOf(game, human_id(p)) = {}

\* C19: in every state of the store, remove_player of an id that is not
\* present returns the store unchanged, and remove_player applied twice
\* equals remove_player applied once.
C19_RemoveAbsentIsNoOp ==
    \A pid \in MsgPlayerIds :
        /\ pid \notin DOMAIN game.players => remove_player(game, pid) = game
        /\ remove_player(remove_player(game, pid), pid)
                = remove_player(game, pid)

\* p1 is in the store, moved and asleep, and a remove_player has run (two
\* Joins were made, one human body is left): remove_player("p2") and
\* remove_player("ghost") meet a store where they have nothing to remove.
C19_Witness ==
    /\ DOMAIN game.players = {"p1"}
    /\ game.players["p1"].activity = "Sleeping"
    /\ game.players["p1"].position = <<10, 0, 0>>
    /\ n_joins = 2
    /\ BodiesOf(game, human_id("p1")) # {}
    /\ Cardinality(DOMAIN game.physics.rigid_body_set) = 2

\* C20: in every state of the store, update_player_activity on a present
\* player returns the store with that player's activity replaced and
\* nothing else changed: not the player's other fields, not another player,
\* not an entity, not a physics body.
C20_ActivityOnly ==
    \A pid \in DOMAIN game.players, activity \in Activities :
        LET g2 == update_player_activity(game, pid, activity)
        IN  /\ g2.entities = game.entities
            /\ g2.physics = game.physics
            /\ DOMAIN g2.players = DOMAIN game.players
            /\ \A q \in DOMAIN game.players \ {pid} :
                    g2.players[q] = game.players[q]
            /\ g2.players[pid].activity = activity
            /\ g2.players[pid].id = game.players[pid].id
            /\ g2.players[pid].username = game.players[pid].username
            /\ g2.players[pid].position = game.players[pid].position
            /\ g2.players[pid].rotation = game.players[pid].rotation
            /\ g2.players[pid].is_moving = game.players[pid].is_moving

\* A SetActivity has run on a moving, turned player (p1 is asleep, which no
\* Join sets) next to another player, after a physics tick.
C20_Witness ==
    /\ DOMAIN game.players = PlayerIds
    /\ game.players["p1"].activity = "Sleeping"
    /\ game.players["p1"].is_moving
    /\ game.players["p1"].rotation = 1
    /\ game.players["p1"].position = <<10, 0, 0>>
    /\ game.players["p2"].activity = "Idle"
    /\ game.entities[BallId].position # <<-300, 500, -400>>


\* The store after one call a session makes: the add_player of a Join, the
\* update_player_position of a Move, the update_player_activity of a
\* SetActivity and the remove_player of the cleanup, with any argument.
SessionCalls(g) ==
    {add_player(g, player) : player \in JoinPlayers}
    \cup {update_player_position(g, q, m[1], m[2], m[3]) :
            q \in MsgPlayerIds, m \in MoveInputs}
    \cup {update_player_activity(g, q, activity) :
            q \in MsgPlayerIds, activity \in Activities}
    \cup {remove_player(g, q) : q \in MsgPlayerIds}

BallIds(g) == {id \in DOMAIN g.entities : g.entities[id].entity_type = "Ball"}

\* C21: in every state of the store the seeded ball is the one Ball entity,
\* with its rigid body, and every call a session makes (add_player,
\* update_player_position, update_player_activity, remove_player, with any
\* id) leaves the set of Ball entities, the ball's stored position and
\* rotation and the ball's body as they were.
C21_BallUntouchedBySessions ==
    /\ BallIds(game) = {BallId}
    /\ HasBody(game.physics, BallId)
    /\ \A g2 \in SessionCalls(game) :
        /\ BallIds(g2) = {BallId}
        /\ g2.entities[BallId] = game.entities[BallId]
        /\ HasBody(g2.physics, BallId)
        /\ get_entity_position(g2.physics, BallId)
                = get_entity_position(game.physics, BallId)

\* Joins (one of them a second Join of p1), a removal of p1 and a Move of
\* p2 have run, and a physics tick has moved the ball: the ball entity is
\* present at the position the engine gave it.
C21_Witness ==
    /\ n_joins = 3
    /\ DOMAIN game.players = {"p2"}
    /\ game.players["p2"].is_moving
    /\ BodiesOf(game, human_id("p1")) # {}
    /\ game.entities[BallId].position = <<-290, 400, -410>>


\* C22: in every state of the store, step_physics leaves the stored position
\* and the stored rotation of every Human entity equal to the values in the
\* store before the step, wherever the engine puts the ball.
C22_StepKeepsHumanTransform ==
    \A id \in HumanIds(game), ball_translation \in BallPositions :
        LET g2 == step_physics(game, ball_translation)
        IN  /\ g2.entities[id].position = game.entities[id].position
            /\ g2.entities[id].rotation = game.entities[id].rotation

\* The half of C22 that holds: step_physics leaves the stored position of
\* every Human entity as it was.
C22_StepKeepsHumanPosition ==
    \A id \in HumanIds(game), ball_translation \in BallPositions :
        step_physics(game, ball_translation).entities[id].position
            = game.entities[id].position


\* C23: after a persistence tick whose storage write failed, the task goes
\* on to a next tick that snapshots the entities and writes them again.
C23_FailedSaveIsRetried == (saved = "Err") ~> (persist_pc = "save")

\* The part of C23 that holds: no step of a storage write, a failing one
\* included, changes the World Store or takes its lock.
C23_FailureStep ==
    persist_pc = "save" /\ persist_vars' # persist_vars =>
        /\ game' = game
        /\ lock' = lock

C23_FailureKeepsStore == [][C23_FailureStep]_vars


\* C24: after any number of physics ticks the stored position of the Ball
\* entity is within the arena horizontally: x and z are within the ground's
\* half-extent of 5000 cm.
C24_BallContained ==
    /\ Abs(game.entities[BallId].position[1]) <= ground_half_size
    /\ Abs(game.entities[BallId].position[3]) <= ground_half_size


\* C25: in every state of the store and for every present player P, two
\* Moves for P applied one after the other leave P with the values of the
\* second (the store is the one the second Move alone would give, whichever
\* sessions sent them), two SetActivity likewise, and a Move and a
\* SetActivity applied in either order leave P with the values of both.
C25_LastWriterWins ==
    \A p \in DOMAIN game.players :
        /\ \A m1 \in MoveInputs, m2 \in MoveInputs :
            LET g1 == update_player_position(game, p, m1[1], m1[2], m1[3])
                g2 == update_player_position(g1, p, m2[1], m2[2], m2[3])
            IN  /\ g2.players[p].position = m2[1]
                /\ g2.players[p].rotation = m2[2]
                /\ g2.players[p].is_moving = m2[3]
                /\ g2 = update_player_position(game, p, m2[1], m2[2], m2[3])
        /\ \A a1 \in Activities, a2 \in Activities :
            update_player_activity(update_player_activity(game, p, a1), p, a2)
                = update_player_activity(game, p, a2)
        /\ \A m \in MoveInputs, a \in Activities :
            LET ma == update_player_activity(
                        update_player_position(game, p, m[1], m[2], m[3]),
                        p, a)
                am == update_player_position(
                        update_player_activity(game, p, a), p, m[1], m[2],
                        m[3])
            IN  /\ ma = am
                /\ ma.players[p].activity = a
                /\ ma.players[p].position = m[1]
                /\ ma.players[p].rotation = m[2]
                /\ ma.players[p].is_moving = m[3]

\* Moves and a SetActivity have been applied to p2 next to p1: p2 moves
\* (no Join sets is_moving), sleeps, and stands where a Move put it, turned
\* back to rotation 0 after a physics tick.
C25_Witness ==
    /\ DOMAIN game.players = PlayerIds
    /\ game.players["p2"].is_moving
    /\ game.players["p2"].activity = "Sleeping"
    /\ game.players["p2"].position = <<10, 0, 0>>
    /\ game.players["p2"].rotation = 0
    /\ game.players["p1"].rotation = 1
    /\ ~game.players["p1"].is_moving
    /\ game.entities[BallId].position = <<-290, 400, -410>>


\* C26: in every reachable state the broadcast tick can run at once: it
\* waits for no session, whatever the sessions' queues hold and however
\* far behind their receivers are.
C26_BroadcastNeverWaits == ENABLED BroadcastTick


\* The WorldState payloads in flight: in the sessions' queues, carried by a
\* suspended send, and retained by the broadcast channel.
Payloads ==
    {m \in UNION {{queue[s][i] : i \in 1..Len(queue[s])} : s \in Sessions}
            \cup {send_pending[s] : s \in Sessions} :
        m.type = "WorldState"}
    \cup {broadcast_buf[i] : i \in 1..Len(broadcast_buf)}

\* C27: in every WorldState payload, a Join's snapshot or a broadcast, every
\* player P comes with the Human entity "human_"+P and every Human entity
\* comes with its player.
C27_PayloadIsOneState ==
    \A m \in Payloads :
        /\ \A p \in DOMAIN m.players :
            /\ human_id(p) \in DOMAIN m.entities
            /\ m.entities[human_id(p)].entity_type = "Human"
        /\ \A id \in DOMAIN m.entities :
            m.entities[id].entity_type = "Human" =>
                \E p \in DOMAIN m.players : id = human_id(p)

\* A Join's snapshot showing both players waits in a queue and a broadcast
\* payload showing both is retained, while the store has moved on: p1 has
\* been removed since.
C27_Witness ==
    /\ DOMAIN game.players = {"p2"}
    /\ \E s \in Sessions : \E i \in 1..Len(queue[s]) :
        /\ queue[s][i].type = "WorldState"
        /\ DOMAIN queue[s][i].players = PlayerIds
    /\ \E i \in 1..Len(broadcast_buf) :
        DOMAIN broadcast_buf[i].players = PlayerIds


\* The entity ids a caller may name: the ball, a human per id a message may
\* carry, and an id nothing ever had.
EntityIds == {BallId, "ball_1"} \cup {human_id(p) : p \in MsgPlayerIds}

\* C28: in every state of the store, for every entity id the engine's handle
\* map does not hold (never created, or removed), update_human_position and
\* remove_entity return the engine unchanged and get_entity_position and
\* get_entity_rotation return None; and after the removal of a player, a
\* Move for that player and a physics tick go through and leave the player
\* and its entity absent.
C28_UnknownIdIsNoOp ==
    /\ \A id \in EntityIds \ DOMAIN game.physics.entity_handles :
        /\ \A position \in Positions :
            update_human_position(game.physics, id, position[1], position[2],
                                  position[3]) = game.physics
        /\ remove_entity(game.physics, id) = game.physics
        /\ get_entity_position(game.physics, id) = None
        /\ get_entity_rotation(game.physics, id) = None
    /\ \A p \in PlayerIds :
        LET g1 == remove_player(game, p)
        IN  /\ \A m \in MoveInputs :
                update_player_position(g1, p, m[1], m[2], m[3]) = g1
            /\ \A ball_translation \in BallPositions :
                LET g2 == step_physics(g1, ball_translation)
                IN  /\ p \notin DOMAIN g2.players
                    /\ human_id(p) \notin DOMAIN g2.entities
                    /\ get_entity_position(g2.physics, human_id(p)) = None

\* p1 was joined and removed (two Joins were made, p2 is the one player, the
\* engine holds the ball and p2's body only): "human_p1" is an id that was
\* removed, "human_ghost" and "ball_1" are ids that never existed.
C28_Witness ==
    /\ n_joins = 2
    /\ DOMAIN game.players = {"p2"}
    /\ DOMAIN game.physics.entity_handles = {BallId, human_id("p2")}
    /\ Cardinality(DOMAIN game.physics.rigid_body_set) = 2
    /\ game.players["p2"].is_moving


\* C29: in every state of the store, update_entity_position and
\* update_entity_rotation return the store unchanged for an absent id; for
\* a present id they set that entity's position (rotation) to the given
\* value and change no other field, entity or player; update_entity_position
\* moves the body of a Human entity to the position and leaves the engine
\* untouched for a Ball, whose stored position the next step_physics
\* replaces by the engine's; update_entity_rotation leaves the engine
\* untouched.
C29_EntityUpdates ==
    \A id \in EntityIds, position \in Positions, rotation \in EntityRotations :
        LET g2 == update_entity_position(game, id, position)
            g3 == update_entity_rotation(game, id, rotation)
        IN  IF id \notin DOMAIN game.entities
            THEN g2 = game /\ g3 = game
            ELSE /\ g2.entities[id] =
                        [game.entities[id] EXCEPT !.position = position]
                 /\ g3.entities[id] =
                        [game.entities[id] EXCEPT !.rotation = rotation]
                 /\ DOMAIN g2.entities = DOMAIN game.entities
                 /\ DOMAIN g3.entities = DOMAIN game.entities
                 /\ \A e \in DOMAIN game.entities \ {id} :
                        /\ g2.entities[e] = game.entities[e]
                        /\ g3.entities[e] = game.entities[e]
                 /\ g2.players = game.players
                 /\ g3.players = game.players
                 /\ g3.physics = game.physics
                 /\ IF game.entities[id].entity_type = "Human"
                    THEN /\ get_entity_position(g2.physics, id) = position
                         /\ g2.physics.entity_handles
                                = game.physics.entity_handles
                         /\ \A h \in DOMAIN game.physics.rigid_body_set :
                                h # game.physics.entity_handles[id] =>
                                    g2.physics.rigid_body_set[h]
                                        = game.physics.rigid_body_set[h]
                    ELSE /\ g2.physics = game.physics
                         /\ \A ball_translation \in BallPositions :
                                step_physics(g2, ball_translation)
                                        .entities[id].position
                                    = ball_translation

\* update_entity_position has moved the entity and the body of p1 away from
\* the player, update_entity_rotation has turned the entity, and
\* update_entity_position has put the ball's stored position where the
\* engine's body is not.
C29_Witness ==
    /\ "p1" \in DOMAIN game.players
    /\ game.players["p1"].position = <<0, 0, 0>>
    /\ game.entities[human_id("p1")].position = <<10, 0, 0>>
    /\ get_entity_position(game.physics, human_id("p1")) = <<10, 0, 0>>
    /\ game.entities[human_id("p1")].rotation = <<0, 1, 0>>
    /\ game.entities[BallId].position = <<10, 0, 0>>
    /\ get_entity_position(game.physics, BallId) = <<-290, 400, -410>>


\* C30: in every state of the store the ids of the engine's handle map are
\* the ids of the store's entities, and these are the seeded ball and
\* "human_"+P for every player P.
C30_HandlesAreEntities ==
    /\ DOMAIN game.physics.entity_handles = DOMAIN game.entities
    /\ DOMAIN game.entities
            = {BallId} \cup {human_id(p) : p \in DOMAIN game.players}

\* p1 was joined twice and p2 joined and removed: the handle map holds the
\* ball and p1's current body, next to the body of p1's first Join that no
\* handle names.
C30_Witness ==
    /\ n_joins = 3
    /\ DOMAIN game.players = {"p1"}
    /\ DOMAIN game.physics.entity_handles = {BallId, human_id("p1")}
    /\ Cardinality(BodiesOf(game, human_id("p1"))) = 2
    /\ BodiesOf(game, human_id("p2")) = {}


\* C31: in every state of the store, add_player for an id that is present
\* leaves the ids of the players and of the entities as they were, stores
\* the new Player under the id and its mirror under "human_"+id (position
\* of the Join, rotation (0, rotation, 0)), and leaves every other player
\* and entity as it was; and add_player applied twice with the same Player
\* gives the players and entities of add_player applied once.
C31_RejoinReplaces ==
    /\ \A player \in {j \in JoinPlayers : j.id \in DOMAIN game.players} :
        LET g2 == add_player(game, player)
        IN  /\ DOMAIN g2.players = DOMAIN game.players
            /\ DOMAIN g2.entities = DOMAIN game.entities
            /\ g2.players[player.id] = player
            /\ g2.entities[human_id(player.id)] =
                    [id |-> human_id(player.id), entity_type |-> "Human",
                     position |-> player.position,
                     rotation |-> <<0, player.rotation, 0>>]
            /\ \A q \in DOMAIN game.players \ {player.id} :
                    g2.players[q] = game.players[q]
            /\ \A e \in DOMAIN game.entities \ {human_id(player.id)} :
                    g2.entities[e] = game.entities[e]
    /\ \A player \in JoinPlayers :
        LET g1 == add_player(game, player)
            g2 == add_player(g1, player)
        IN  g2.players = g1.players /\ g2.entities = g1.entities

\* p1 was joined at (0,0,0) and joined again at (10,0,0) with rotation 1:
\* the engine holds the bodies of both Joins, the store holds the one
\* player and the one entity of the second, next to p2.
C31_Witness ==
    /\ n_joins = 3
    /\ DOMAIN game.players = PlayerIds
    /\ game.players["p1"].position = <<10, 0, 0>>
    /\ game.players["p1"].rotation = 1
    /\ ~game.players["p1"].is_moving
    /\ game.entities[human_id("p1")].rotation = <<0, 1, 0>>
    /\ {game.physics.rigid_body_set[h].translation :
            h \in BodiesOf(game, human_id("p1"))}
         = {<<0, 0, 0>>, <<10, 0, 0>>}


\* C32: the id a session remembers changes only by a Join of that session,
\* to the id of that Join; the session's cleanup removes the player of the
\* remembered id and no other player, whatever other ids the session sent
\* a Join for; and a session that has run its cleanup never runs it again.
C32_Step ==
    \A s \in Sessions :
        /\ \/ player_id'[s] = player_id[s]
           \/ \E player \in SessionJoins :
                RxJoin(s, player) /\ player_id'[s] = player.id
        /\ CleanupOf(s) =>
            /\ DOMAIN game.players \ DOMAIN game'.players
                    \subseteq {player_id[s]}
            /\ player_id[s] \notin DOMAIN game'.players
            /\ \A p \in DOMAIN game.players \ {player_id[s]} :
                    game'.players[p] = game.players[p]
            /\ \A p \in joined[s] \ {player_id[s]} :
                    human_id(p) \in DOMAIN game.entities
                        => human_id(p) \in DOMAIN game'.entities
        /\ rxpc[s] = "done" => rxpc'[s] = "done" /\ player_id'[s] = player_id[s]

C32_CleanupRemovesLastJoined == [][C32_Step]_vars

\* A session sent a Join for p1 and then one for p2 and has run its
\* cleanup: it remembered p2, p2 is gone, and p1, which no other session
\* joined, is still in the store.
C32_Witness ==
    \E s \in Sessions :
        /\ rxpc[s] = "done"
        /\ joined[s] = PlayerIds
        /\ player_id[s] = "p2"
        /\ \A t \in Sessions \ {s} : joined[t] = {}
        /\ DOMAIN game.players = {"p1"}
        /\ human_id("p2") \notin DOMAIN game.entities


\* C33: in every state where a session's rx_task is reading and the store
\* is unlocked, whether the session never joined, joined under the id or
\* joined under another id, a Move for an id gives the store that
\* update_player_position gives for the message and the store, and a
\* SetActivity the one update_player_activity gives; when the id names a
\* present player, that player then has the values of the message.
C33_NoOwnershipCheck ==
    \A s \in Sessions :
        ValidEnabled(s) =>
            \A pid \in MsgPlayerIds :
                /\ \A m \in MoveInputs :
                    LET g2 == update_player_position(game, pid, m[1], m[2],
                                                     m[3])
                    IN  /\ ENABLED (/\ RxMove(s, pid, m[1], m[2], m[3])
                                    /\ game' = g2)
                        /\ pid \in DOMAIN game.players =>
                            /\ g2.players[pid].position = m[1]
                            /\ g2.players[pid].rotation = m[2]
                            /\ g2.players[pid].is_moving = m[3]
                /\ \A activity \in Activities :
                    LET g2 == update_player_activity(game, pid, activity)
                    IN  /\ ENABLED (/\ RxSetActivity(s, pid, activity)
                                    /\ game' = g2)
                        /\ pid \in DOMAIN game.players =>
                            g2.players[pid].activity = activity

\* p1 has been moved and put to sleep; the one session that sent a Join
\* for p1 has since joined as p2, and a session that never joined is
\* reading: its Move for p1 changes the store.
C33_Witness ==
    \E s \in Sessions, t \in Sessions :
        /\ joined[s] = {}
        /\ ValidEnabled(s)
        /\ joined[t] = PlayerIds
        /\ player_id[t] = "p2"
        /\ ValidEnabled(t)
        /\ "p1" \in DOMAIN game.players
        /\ game.players["p1"].is_moving
        /\ game.players["p1"].activity = "Sleeping"
        /\ ENABLED (/\ RxMove(s, "p1", <<0, 0, 0>>, 0, FALSE)
                    /\ ~game'.players["p1"].is_moving)
        /\ ENABLED (/\ RxSetActivity(t, "p1", "Idle")
                    /\ game'.players["p1"].activity = "Idle")


\* C34: a session whose broadcast receiver is more than the channel's
\* capacity behind while sender_task runs can take the receive error, and
\* the error ends sender_task; until then the receiver stays lagged and
\* delivers no broadcast payload, and once sender_task has ended it writes
\* nothing more to the socket.
C34_Step ==
    \A s \in Sessions :
        /\ (txpc[s] = "run" /\ Lagged(s)) =>
            /\ ENABLED SenderLagged(s)
            /\ ~SenderBroadcast(s)
            /\ txpc'[s] = "done" \/ (txpc'[s] = "run" /\ Lagged(s)')
            /\ SenderLagged(s) => txpc'[s] = "done"
        /\ txpc[s] = "done" =>
            /\ txpc'[s] = "done"
            /\ ~(SenderBroadcast(s) \/ SenderDirect(s))

C34_LaggedReceiverHalts == [][C34_Step]_vars

\* The sender_task of a session has ended on the receive error: the
\* receiver is still more than the capacity behind, the socket is open and
\* rx_task is reading (no write failed and the queue was not closed), while
\* the channel holds a later payload for the other session.
C34_Witness ==
    \E s \in Sessions, t \in Sessions :
        /\ txpc[s] = "done"
        /\ behind[s] > BroadcastCapacity
        /\ transport[s] = "open"
        /\ rxpc[s] = "recv"
        /\ txpc[t] = "run"
        /\ behind[t] = 1
        /\ broadcast_buf # <<>>


\* The texts of InboundTexts that are well-formed messages of a variant the
\* server sends.
ServerToClientTexts ==
    {text \in InboundTexts :
        text.type \in {"Leave", "ActivityChanged", "WorldState", "TimeSync"}}

\* C35: a well-formed Leave, ActivityChanged, WorldState or TimeSync text
\* parses and takes the fallthrough branch, and so does a Binary, Ping or
\* Pong frame; the branch changes nothing in the World Store (a Leave
\* removes no player), enqueues nothing on any queue, and leaves rx_task
\* reading: whatever valid message could be applied before can be applied
\* after.
C35_Step ==
    \A s \in Sessions :
        /\ \A text \in ServerToClientTexts :
            /\ from_str(text) = "Ok"
            /\ text.type \notin {"Join", "Move", "SetActivity"}
        /\ (\/ \E text \in ServerToClientTexts : RxIgnored(s, text)
            \/ \E frame \in OtherFrames : RxOtherFrame(s, frame)) =>
                /\ game' = game
                /\ queue' = queue
                /\ send_pending' = send_pending
                /\ rxpc'[s] = "recv"
                /\ transport'[s] = "open"
                /\ player_id'[s] = player_id[s]
                /\ ValidEnabled(s) => ValidEnabled(s)'

C35_OtherFramesIgnored == [][C35_Step]_vars

\* A session that joined is reading with its player in the store and its
\* sender_task running: the state in which it sends a Leave or a Binary
\* frame, and, the branch changing no variable, the state after it.
C35_Witness ==
    \E s \in Sessions :
        /\ ValidEnabled(s)
        /\ player_id[s] \in DOMAIN game.players
        /\ human_id(player_id[s]) \in DOMAIN game.entities
        /\ txpc[s] = "run"
        /\ ENABLED RxIgnored(s, [type |-> "Leave", fields |-> {"player_id"}])
        /\ ENABLED RxOtherFrame(s, "Binary")


\* C36: the connection setup, before rx_task exists and before any Join of
\* the session, puts one TimeSync on the session's empty queue, and nothing
\* else ever enqueues a TimeSync: a queued TimeSync is the head of its
\* queue, in front of every Join snapshot.  The queue changes only by the
\* setup, by a snapshot appended at its end (by the session's own rx_task),
\* by sender_task writing its head to the socket, or by sender_task ending:
\* the messages reach the socket in the order they were enqueued.
C36_Step ==
    \A s \in Sessions :
        /\ \A i \in 1..Len(queue[s]) : queue[s][i] = TimeSync => i = 1
        /\ send_pending[s] # TimeSync
        /\ Connect(s) =>
            /\ rxpc[s] = None
            /\ joined[s] = {}
            /\ queue[s] = <<>>
            /\ queue'[s] = <<TimeSync>>
        /\ queue'[s] # queue[s] =>
            \/ Connect(s)
            \/ /\ rxpc[s] \in {"recv", "send"}
               /\ Len(queue'[s]) = Len(queue[s]) + 1
               /\ SubSeq(queue'[s], 1, Len(queue[s])) = queue[s]
               /\ queue'[s][Len(queue'[s])].type = "WorldState"
            \/ /\ SenderDirect(s)
               /\ queue'[s] = Tail(queue[s])
            \/ /\ txpc[s] = "run"
               /\ txpc'[s] = "done"
               /\ queue'[s] = <<>>

C36_TimeSyncFirstThenFifo == [][C36_Step]_vars

\* One session joined before its sender_task wrote anything: its queue is
\* the TimeSync followed by the Join's snapshot.  The other session's
\* TimeSync has been written to the socket and the snapshot of its Join is
\* what the queue holds.
C36_Witness ==
    \E s \in Sessions, t \in Sessions :
        /\ Len(queue[s]) = 2
        /\ queue[s][1] = TimeSync
        /\ queue[s][2].type = "WorldState"
        /\ joined[s] # {}
        /\ txpc[t] = "run"
        /\ joined[t] # {}
        /\ n_joins = 2
        /\ Len(queue[t]) = 1
        /\ queue[t][1].type = "WorldState"


\* C37: while save_all_entities runs, a row is written only by the upsert
\* of one entity of the snapshot that was not yet written, which then
\* counts as written; entities leave the snapshot unwritten only when an
\* upsert fails, and then all that are left leave it together, the table
\* keeps the rows written so far, the error is what the loop logs and the
\* task waits for its next tick; Ok is logged only when every entity of
\* the snapshot was written; between two saves the table is not written.
C37_Step ==
    /\ persist_pc = "save" /\ persist_vars' # persist_vars =>
        \/ /\ \E id \in DOMAIN entities :
                /\ db' = upsert_entity(db, EntityData(entities[id]))
                /\ entities' = Remove(entities, id)
           /\ persist_pc' = "save"
           /\ saved' = saved
        \/ /\ entities # EmptyMap
           /\ entities' = EmptyMap
           /\ db' = db
           /\ persist_pc' = "tick"
           /\ saved' = "Err"
        \/ /\ entities = EmptyMap
           /\ entities' = EmptyMap
           /\ db' = db
           /\ persist_pc' = "tick"
           /\ saved' = "Ok"
    /\ persist_pc = "tick" =>
        /\ db' = db
        /\ saved' = saved
        /\ persist_pc' = "save" => entities' = get_all_entities(game)

C37_SaveStopsAtFirstFailure == [][C37_Step]_vars

\* A save has failed after the upsert of human_p1 and before the upsert of
\* the ball, which is in every snapshot: the table has the row of the
\* human and no row of the ball, the error is logged and the task waits
\* for its next tick.
C37_Witness ==
    /\ saved = "Err"
    /\ persist_pc = "tick"
    /\ uuid_id(human_id("p1")) \in DOMAIN db
    /\ uuid_id(BallId) \notin DOMAIN db


\* C38: every UPDATE of the game time persistence task stores the value the
\* task read: the row's game_time_minutes, read back as a 64-bit integer,
\* equals the game_time given to set_game_time_minutes.
C38_Step ==
    \A now \in UnixSeconds :
        PersistGameTime(now) => i32_as_i64(game_state') = now

C38_GameTimeStoredExactly == [][C38_Step]_vars

\* The part of C38 that holds: the stored value equals the game time for
\* every reading below 2^31, and differs from it by a multiple of 2^32 for
\* every other.
C38_ExactBelowOverflow ==
    \A now \in UnixSeconds \cup {game_time} :
        LET stored == i32_as_i64(i64_as_i32(now))
        IN  /\ stored[3] = now[3] /\ stored[4] = now[4]
            /\ (now[1] = 0 /\ now[2] = 0 /\ now[3] < 32768)
                    <=> stored = now

=============================================================================
